---- MODULE Spec2Model ----
(***************************************************************************)
(* Model of package testutil (src/testutil/testutil.go): the keystone      *)
(* fixture builder, the byte padding helpers, the fatal-on-error helpers   *)
(* and the script execution harness.                                       *)
(***************************************************************************)
EXTENDS Integers, Sequences, FiniteSets, TLC

VARIABLES
    \* MakeSharedKeystones
    n, ksPc, ci, kssList, kssMap, prevKeystone,
    \* FillBytes / FillBytesZero
    fbPrefix, fbN, fbPc, fbResult, fbzResult,
    \* FreePort / RandomBytes
    sysFn, sysPc, sysArg, sysBuf, sysErr, sysPort, sysRet, sysCalls,
    \* ExecuteTX
    run

ksVars   == <<n, ksPc, ci, kssList, kssMap, prevKeystone>>
fbVars   == <<fbPrefix, fbN, fbPc, fbResult, fbzResult>>
sysVars  == <<sysFn, sysPc, sysArg, sysBuf, sysErr, sysPort, sysRet, sysCalls>>
execVars == <<run>>
vars     == <<ksVars, fbVars, sysVars, execVars>>

----------------------------------------------------------------------------
(* Bounds *)
\* Counts range over -NegN..MaxN.
NegN == 2
MaxN == 258

----------------------------------------------------------------------------
(* Integer widths *)
U8(v)  == v % 256

\* A uint32 is kept as two 16-bit limbs <<hi, lo>>: its value is hi * 2^16 + lo.
Limb == 65536

\* uint32(v) for a non-negative int v
U32(v) == <<(v \div Limb) % Limb, v % Limb>>

\* a + k in uint32 arithmetic, k a small non-negative int
U32Add(a, k) ==
    LET lo == a[2] + k
    IN  <<(a[1] + (lo \div Limb)) % Limb, lo % Limb>>

\* a * k in uint32 arithmetic, k a small non-negative int
U32Mul(a, k) ==
    LET lo == a[2] * k
    IN  <<((a[1] * k) + (lo \div Limb)) % Limb, lo % Limb>>

Min(a, b) == IF a < b THEN a ELSE b

----------------------------------------------------------------------------
(* Hashing.  A digest is an ideal (collision free) term over its input. *)
SHA256(x) == [alg |-> "sha256", pre |-> x]

NilHash == [alg |-> "nil", pre |-> <<>>]

\* hemi.L2KeystoneAbbreviate: the condensed form keeps the numeric fields and
\* a fixed-length leading part of each hash.
Truncate(h, k) == [alg |-> "prefix", len |-> k, pre |-> h]

L2KeystoneAbbreviate(ks) ==
    [Version            |-> ks.Version,
     L1BlockNumber      |-> ks.L1BlockNumber,
     L2BlockNumber      |-> ks.L2BlockNumber,
     ParentEPHash       |-> Truncate(ks.ParentEPHash, 11),
     PrevKeystoneEPHash |-> Truncate(ks.PrevKeystoneEPHash, 12),
     StateRoot          |-> ks.StateRoot,
     EPHash             |-> Truncate(ks.EPHash, 12)]

\* (*L2KeystoneAbrev).Hash: content hash of the abbreviated keystone.
AbrevHash(a) == [alg |-> "dsha256", pre |-> a]

----------------------------------------------------------------------------
(* MakeSharedKeystones *)

GenesisKeystone ==
    [Version            |-> 1,
     L1BlockNumber      |-> U32(10000),
     L2BlockNumber      |-> U32(25),
     ParentEPHash       |-> NilHash,
     PrevKeystoneEPHash |-> SHA256(<<0, 0>>),
     StateRoot          |-> NilHash,
     EPHash             |-> SHA256(<<0>>)]

\* kssMap[key] = val
MapPut(m, key, val) ==
    [k \in (DOMAIN m) \cup {key} |-> IF k = key THEN val ELSE m[k]]

EmptyMap == [k \in {} |-> NilHash]

\* The zero value of hemi.L2Keystone.
ZeroKeystone ==
    [Version            |-> 0,
     L1BlockNumber      |-> U32(0),
     L2BlockNumber      |-> U32(0),
     ParentEPHash       |-> NilHash,
     PrevKeystoneEPHash |-> NilHash,
     StateRoot          |-> NilHash,
     EPHash             |-> NilHash]

\* Mutant: the slice is made with length n instead of capacity n.
MakeSliceLenBug(len, cap) == [i \in 1..cap |-> ZeroKeystone]

\* make([]hemi.L2Keystone, len, cap): len zero-valued elements.
MakeSlice(len, cap) == [i \in 1..len |-> ZeroKeystone]

\* Mutant: the previous keystone's own back link is copied forward.
NewL2KeystoneWrongLink(c, prev) ==
    LET x == U8(c + 1) IN
    [Version            |-> 1,
     L1BlockNumber      |-> U32Add(prev.L1BlockNumber, 1),
     L2BlockNumber      |-> U32Mul(U32(c + 1), 25),
     ParentEPHash       |-> SHA256(<<x, x>>),
     PrevKeystoneEPHash |-> prev.PrevKeystoneEPHash,
     StateRoot          |-> SHA256(<<x, x, x>>),
     EPHash             |-> SHA256(<<x>>)]

\* Mutant: the hash input byte is the index, not the index plus one.
NewL2KeystoneOffByOne(c, prev) ==
    LET x == U8(c) IN
    [Version            |-> 1,
     L1BlockNumber      |-> U32Add(prev.L1BlockNumber, 1),
     L2BlockNumber      |-> U32Mul(U32(c + 1), 25),
     ParentEPHash       |-> SHA256(<<x, x>>),
     PrevKeystoneEPHash |-> prev.EPHash,
     StateRoot          |-> SHA256(<<x, x, x>>),
     EPHash             |-> SHA256(<<x>>)]

\* The keystone literal built in the loop body for index c.
NewL2Keystone(c, prev) ==
    LET x == U8(c + 1) IN
    [Version            |-> 1,
     L1BlockNumber      |-> U32Add(prev.L1BlockNumber, 1),
     L2BlockNumber      |-> U32Mul(U32(c + 1), 25),
     ParentEPHash       |-> SHA256(<<x, x>>),
     PrevKeystoneEPHash |-> prev.EPHash,
     StateRoot          |-> SHA256(<<x, x, x>>),
     EPHash             |-> SHA256(<<x>>)]

ksIdle ==
    /\ n = 0 /\ ksPc = "idle" /\ ci = 0
    /\ kssList = <<>> /\ kssMap = EmptyMap /\ prevKeystone = GenesisKeystone

ksInit ==
    /\ n \in (-NegN)..MaxN
    /\ ksPc = "make"
    /\ ci = 0
    /\ kssList = <<>>
    /\ kssMap = EmptyMap
    /\ prevKeystone = GenesisKeystone

\* make([]hemi.L2Keystone, 0, n): a negative capacity panics.
ksMake ==
    /\ ksPc = "make"
    /\ IF n < 0
          THEN ksPc' = "panic" /\ UNCHANGED kssList
          ELSE ksPc' = "loop" /\ kssList' = MakeSlice(0, n)
    /\ UNCHANGED <<n, ci, kssMap, prevKeystone>>

\* One iteration of "for ci := range n".
ksLoop ==
    /\ ksPc = "loop"
    /\ ci < n
    /\ LET l2Keystone == NewL2Keystone(ci, prevKeystone)
           abrevKss   == L2KeystoneAbbreviate(l2Keystone)
       IN /\ kssMap' = MapPut(kssMap, AbrevHash(abrevKss), abrevKss)
          /\ kssList' = Append(kssList, l2Keystone)
          /\ prevKeystone' = l2Keystone
    /\ ci' = ci + 1
    /\ UNCHANGED <<n, ksPc>>

ksReturn ==
    /\ ksPc = "loop"
    /\ ci >= n
    /\ ksPc' = "returned"
    /\ UNCHANGED <<n, ci, kssList, kssMap, prevKeystone>>


----------------------------------------------------------------------------
(* FillBytes / FillBytesZero *)

MaxPrefixLen == 3
NegFillN     == 2
MaxFillN     == 4

Underscore == 95

\* Byte values a prefix is drawn from: NUL, '_' and 'a'.
PrefixBytes == {0, Underscore, 97}

Prefixes == UNION {[1..l -> PrefixBytes] : l \in 0..MaxPrefixLen}

\* make([]byte, len): len zero bytes
MakeBytes(len) == [i \in 1..len |-> 0]

\* copy(dst, src): copies min(len(dst), len(src)) bytes
Copy(dst, src) ==
    [i \in 1..Len(dst) |-> IF i <= Min(Len(dst), Len(src)) THEN src[i] ELSE dst[i]]

\* for i := from; i < len(result); i++ { result[i] = '_' }   (i is 0-based)
RECURSIVE FillLoop(_, _)
FillLoop(result, i) ==
    IF i < Len(result)
       THEN FillLoop([result EXCEPT ![i + 1] = Underscore], i + 1)
       ELSE result

\* Mutant: the fill loop starts one byte after the prefix.
FillBytesSkipOne(prefix, len) ==
    LET n1 == IF len < 0 THEN 0 ELSE len
        p1 == IF Len(prefix) > n1 THEN SubSeq(prefix, 1, n1) ELSE prefix
    IN  FillLoop(Copy(MakeBytes(n1), p1), Len(p1) + 1)

FillBytes(prefix, len) ==
    LET n1 == IF len < 0 THEN 0 ELSE len
        p1 == IF Len(prefix) > n1 THEN SubSeq(prefix, 1, n1) ELSE prefix
    IN  FillLoop(Copy(MakeBytes(n1), p1), Len(p1))

\* Mutant: the zero variant still runs the fill loop.
FillBytesZeroFills(prefix, len) ==
    LET n1 == IF len < 0 THEN 0 ELSE len
        p1 == IF Len(prefix) > n1 THEN SubSeq(prefix, 1, n1) ELSE prefix
    IN  FillLoop(Copy(MakeBytes(n1), p1), Len(p1))

FillBytesZero(prefix, len) ==
    LET n1 == IF len < 0 THEN 0 ELSE len
        p1 == IF Len(prefix) > n1 THEN SubSeq(prefix, 1, n1) ELSE prefix
    IN  Copy(MakeBytes(n1), p1)

fbIdle ==
    /\ fbPrefix = <<>> /\ fbN = 0 /\ fbPc = {} /\ fbResult = <<>> /\ fbzResult = <<>>

fbInit ==
    /\ fbPrefix \in Prefixes
    /\ fbN \in (-NegFillN)..MaxFillN
    /\ fbPc = {}
    /\ fbResult = <<>>
    /\ fbzResult = <<>>

fbCallFillBytes ==
    /\ "FillBytes" \notin fbPc
    /\ fbResult' = FillBytes(fbPrefix, fbN)
    /\ fbPc' = fbPc \cup {"FillBytes"}
    /\ UNCHANGED <<fbPrefix, fbN, fbzResult>>

fbCallFillBytesZero ==
    /\ "FillBytesZero" \notin fbPc
    /\ fbzResult' = FillBytesZero(fbPrefix, fbN)
    /\ fbPc' = fbPc \cup {"FillBytesZero"}
    /\ UNCHANGED <<fbPrefix, fbN, fbResult>>

----------------------------------------------------------------------------
(* FreePort / RandomBytes *)

NegCount == 1
MaxCount == 3
MaxPort  == 120

NoErr == "nil"

\* Errors the entropy source or the port probe may report.
SysErrs == {"EIO"}

\* Values the entropy source writes.
RandomByteValues == {7, 200}

\* Ports the probe may be assigned.
Ports == (0..MaxPort) \cup {1024, 49152, 65535}

DigitChars == <<"0", "1", "2", "3", "4", "5", "6", "7", "8", "9">>

RECURSIVE FormatUint(_)
FormatUint(v) ==
    IF v < 10 THEN <<DigitChars[v + 1]>>
              ELSE Append(FormatUint(v \div 10), DigitChars[(v % 10) + 1])

\* strconv.Itoa
Itoa(v) == IF v < 0 THEN <<"-">> \o FormatUint(-v) ELSE FormatUint(v)

sysIdle ==
    /\ sysFn = "none" /\ sysPc = "idle" /\ sysArg = 0 /\ sysBuf = <<>>
    /\ sysErr = NoErr /\ sysPort = 0 /\ sysRet = <<>> /\ sysCalls = 0

sysInit ==
    /\ \/ sysFn = "RandomBytes" /\ sysArg \in (-NegCount)..MaxCount
       \/ sysFn = "FreePort" /\ sysArg = 0
    /\ sysPc = "call"
    /\ sysBuf = <<>>
    /\ sysErr = NoErr
    /\ sysPort = 0
    /\ sysRet = <<>>
    /\ sysCalls = 0

\* b := make([]byte, count): a negative length panics.
rbMake ==
    /\ sysFn = "RandomBytes" /\ sysPc = "call"
    /\ IF sysArg < 0
          THEN sysPc' = "panic" /\ UNCHANGED sysBuf
          ELSE sysPc' = "read" /\ sysBuf' = MakeBytes(sysArg)
    /\ UNCHANGED <<sysFn, sysArg, sysErr, sysPort, sysRet, sysCalls>>

\* _, err := rand.Read(b)
rbRead ==
    /\ sysFn = "RandomBytes" /\ sysPc = "read"
    /\ \E err \in {NoErr} \cup SysErrs :
       \E bytes \in [1..Len(sysBuf) -> RandomByteValues] :
          /\ sysErr' = err
          /\ sysBuf' = IF err = NoErr THEN bytes ELSE sysBuf
    /\ sysCalls' = sysCalls + 1
    /\ sysPc' = "check"
    /\ UNCHANGED <<sysFn, sysArg, sysPort, sysRet>>

\* Mutant: the entropy error is dropped and the buffer returned.
rbReturnIgnoreErr ==
    /\ sysFn = "RandomBytes" /\ sysPc = "check"
    /\ sysPc' = "returned" /\ sysRet' = sysBuf
    /\ UNCHANGED <<sysFn, sysArg, sysBuf, sysErr, sysPort, sysCalls>>

\* if err != nil { panic(err) }; return b
rbReturn ==
    /\ sysFn = "RandomBytes" /\ sysPc = "check"
    /\ IF sysErr # NoErr
          THEN sysPc' = "panic" /\ UNCHANGED sysRet
          ELSE sysPc' = "returned" /\ sysRet' = sysBuf
    /\ UNCHANGED <<sysFn, sysArg, sysBuf, sysErr, sysPort, sysCalls>>

\* port, err := freeport.GetFreePort()
fpProbe ==
    /\ sysFn = "FreePort" /\ sysPc = "call"
    /\ \E err \in {NoErr} \cup SysErrs :
       \E port \in Ports :
          /\ sysErr' = err
          /\ sysPort' = IF err = NoErr THEN port ELSE 0
    /\ sysCalls' = sysCalls + 1
    /\ sysPc' = "check"
    /\ UNCHANGED <<sysFn, sysArg, sysBuf, sysRet>>

\* if err != nil { panic(err) }; return strconv.Itoa(port)
fpReturn ==
    /\ sysFn = "FreePort" /\ sysPc = "check"
    /\ IF sysErr # NoErr
          THEN sysPc' = "panic" /\ UNCHANGED sysRet
          ELSE sysPc' = "returned" /\ sysRet' = Itoa(sysPort)
    /\ UNCHANGED <<sysFn, sysArg, sysBuf, sysErr, sysPort, sysCalls>>

----------------------------------------------------------------------------
(* ExecuteTX *)

\* Longest script, in steps, the interpreter is given.
MaxSteps == 3

\* Errors the script interpreter may report.
Errs == {"e1", "e2"}

AnyErr == {NoErr} \cup Errs

\* The two verbosity settings; run[d] is the call made with dump = d on the
\* same script and transaction, so both see the same interpreter answers.
Dump == BOOLEAN

\* Disassembly texts and stack snapshots the interpreter may hand back.
DisasmTexts == {"OP_1", "OP_DUP"}
Stacks      == {<<>>, <<1>>}

NoVal == "-"

Called(name, err, done, val) ==
    [call |-> name, err |-> err, done |-> done, val |-> val]

\* if dump { t.Logf(...) }
Logf(r, dump, line, arg) ==
    IF dump THEN Append(r.log, [line |-> line, i |-> r.i, arg |-> arg])
            ELSE r.log

InitRun ==
    [pc |-> "NewEngine", i |-> 0, done |-> FALSE, ret |-> "pending",
     calls |-> <<>>, log |-> <<>>]

\* vm, err := txscript.NewEngine(...); the "=== executing" line
OnNewEngine(r, dump, err) ==
    LET c == Append(r.calls, Called("NewEngine", err, FALSE, NoVal)) IN
    IF err # NoErr
       THEN [r EXCEPT !.calls = c, !.ret = err, !.pc = "returned"]
       ELSE [r EXCEPT !.calls = c, !.log = Logf(r, dump, "executing", NoVal),
                      !.pc = "DisasmPC"]

\* Mutant: the disassembly is only asked for when it is going to be logged.
OnDisasmPCOnlyWhenDump(r, dump, text, err) ==
    LET c == Append(r.calls, Called("DisasmPC", err, FALSE, text)) IN
    IF ~dump
       THEN [r EXCEPT !.pc = "Step"]
       ELSE IF err # NoErr
               THEN [r EXCEPT !.calls = c, !.ret = err, !.pc = "returned"]
               ELSE [r EXCEPT !.calls = c,
                              !.log = Logf(r, dump, "disasm", text),
                              !.pc = "Step"]

\* d, err := vm.DisasmPC(); the "i: d" line
OnDisasmPC(r, dump, text, err) ==
    LET c == Append(r.calls, Called("DisasmPC", err, FALSE, text)) IN
    IF err # NoErr
       THEN [r EXCEPT !.calls = c, !.ret = err, !.pc = "returned"]
       ELSE [r EXCEPT !.calls = c, !.log = Logf(r, dump, "disasm", text),
                      !.pc = "Step"]

\* Mutant: the step error is not looked at.
OnStepIgnoreErr(r, dump, done, err) ==
    LET c == Append(r.calls, Called("Step", err, done, NoVal)) IN
    [r EXCEPT !.calls = c, !.done = done, !.pc = "GetStack"]

\* done, err := vm.Step()
OnStep(r, dump, done, err) ==
    LET c == Append(r.calls, Called("Step", err, done, NoVal)) IN
    IF err # NoErr
       THEN [r EXCEPT !.calls = c, !.ret = err, !.pc = "returned"]
       ELSE [r EXCEPT !.calls = c, !.done = done, !.pc = "GetStack"]

\* stack := vm.GetStack(); the "i: stack" line; if done { break }; i++
OnGetStack(r, dump, stack) ==
    LET c == Append(r.calls, Called("GetStack", NoErr, FALSE, stack))
        l == Logf(r, dump, "stack", stack)
    IN  IF r.done
           THEN [r EXCEPT !.calls = c, !.log = l, !.pc = "CheckErrorCondition"]
           ELSE [r EXCEPT !.calls = c, !.log = l, !.i = r.i + 1,
                          !.pc = "DisasmPC"]

\* Mutant: the final condition is checked but nil is returned regardless.
OnCheckErrorConditionDropErr(r, dump, err) ==
    LET c == Append(r.calls, Called("CheckErrorCondition", err, FALSE, NoVal)) IN
    [r EXCEPT !.calls = c, !.log = Logf(r, dump, "success", NoVal),
              !.ret = NoErr, !.pc = "returned"]

\* err = vm.CheckErrorCondition(true); the "=== SUCCESS" line; return nil
OnCheckErrorCondition(r, dump, err) ==
    LET c == Append(r.calls, Called("CheckErrorCondition", err, FALSE, NoVal)) IN
    IF err # NoErr
       THEN [r EXCEPT !.calls = c, !.ret = err, !.pc = "returned"]
       ELSE [r EXCEPT !.calls = c, !.log = Logf(r, dump, "success", NoVal),
                      !.ret = NoErr, !.pc = "returned"]

At(pc) == {d \in Dump : run[d].pc = pc}

execIdle == run = [d \in Dump |-> [InitRun EXCEPT !.pc = "idle"]]

execInit == run = [d \in Dump |-> InitRun]

execNewEngine ==
    /\ At("NewEngine") # {}
    /\ \E err \in AnyErr :
          run' = [d \in Dump |-> IF d \in At("NewEngine")
                                    THEN OnNewEngine(run[d], d, err)
                                    ELSE run[d]]

\* A failed disassembly hands back the empty text.
execDisasmPC ==
    /\ At("DisasmPC") # {}
    /\ \E err \in AnyErr, text \in DisasmTexts \cup {""} :
          /\ (err = NoErr) <=> (text \in DisasmTexts)
          /\ run' = [d \in Dump |-> IF d \in At("DisasmPC")
                                       THEN OnDisasmPC(run[d], d, text, err)
                                       ELSE run[d]]

\* A script of MaxSteps steps is done, or has failed, by its last step.
execStep ==
    /\ At("Step") # {}
    /\ \E err \in AnyErr, done \in BOOLEAN :
          /\ (err = NoErr /\ ~done) =>
                \A d \in At("Step") : run[d].i + 1 < MaxSteps
          /\ run' = [d \in Dump |-> IF d \in At("Step")
                                       THEN OnStep(run[d], d, done, err)
                                       ELSE run[d]]

execGetStack ==
    /\ At("GetStack") # {}
    /\ \E stack \in Stacks :
          run' = [d \in Dump |-> IF d \in At("GetStack")
                                    THEN OnGetStack(run[d], d, stack)
                                    ELSE run[d]]

execCheckErrorCondition ==
    /\ At("CheckErrorCondition") # {}
    /\ \E err \in AnyErr :
          run' = [d \in Dump |-> IF d \in At("CheckErrorCondition")
                                    THEN OnCheckErrorCondition(run[d], d, err)
                                    ELSE run[d]]

----------------------------------------------------------------------------
(* Specifications: one per helper, the other helpers staying idle. *)

Init == ksInit /\ fbIdle /\ sysIdle /\ execIdle

Next ==
    \/ ksMake /\ UNCHANGED <<fbVars, sysVars, execVars>>
    \/ ksLoop /\ UNCHANGED <<fbVars, sysVars, execVars>>
    \/ ksReturn /\ UNCHANGED <<fbVars, sysVars, execVars>>

Spec == Init /\ [][Next]_vars

InitFill == ksIdle /\ fbInit /\ sysIdle /\ execIdle

NextFill ==
    \/ fbCallFillBytes /\ UNCHANGED <<ksVars, sysVars, execVars>>
    \/ fbCallFillBytesZero /\ UNCHANGED <<ksVars, sysVars, execVars>>

SpecFill == InitFill /\ [][NextFill]_vars

InitSys == ksIdle /\ fbIdle /\ sysInit /\ execIdle

NextSys ==
    \/ rbMake /\ UNCHANGED <<ksVars, fbVars, execVars>>
    \/ rbRead /\ UNCHANGED <<ksVars, fbVars, execVars>>
    \/ rbReturn /\ UNCHANGED <<ksVars, fbVars, execVars>>
    \/ fpProbe /\ UNCHANGED <<ksVars, fbVars, execVars>>
    \/ fpReturn /\ UNCHANGED <<ksVars, fbVars, execVars>>

SpecSys == InitSys /\ [][NextSys]_vars

InitExec == ksIdle /\ fbIdle /\ sysIdle /\ execInit

NextExec ==
    \/ execNewEngine /\ UNCHANGED <<ksVars, fbVars, sysVars>>
    \/ execDisasmPC /\ UNCHANGED <<ksVars, fbVars, sysVars>>
    \/ execStep /\ UNCHANGED <<ksVars, fbVars, sysVars>>
    \/ execGetStack /\ UNCHANGED <<ksVars, fbVars, sysVars>>
    \/ execCheckErrorCondition /\ UNCHANGED <<ksVars, fbVars, sysVars>>

SpecExec == InitExec /\ [][NextExec]_vars

\* ExecuteTX is straight-line sequential code: while it has not returned, its
\* next statement runs.
FairSpecExec == SpecExec /\ WF_vars(NextExec)

----------------------------------------------------------------------------
(* Properties of MakeSharedKeystones *)

AbrevKeyOf(ks) == AbrevHash(L2KeystoneAbbreviate(ks))

\* C1: for every count N >= 0 MakeSharedKeystones(N) returns a slice of exactly
\* N records and a map of exactly N entries, one distinct key per generated
\* record, each key still holding the abbreviation of its own record.  The
\* slice and the map grow together, one entry per iteration.
C1_ExactCounts ==
    (n >= 0 /\ ksPc \in {"loop", "returned"}) =>
        /\ Len(kssList) = ci
        /\ Cardinality(DOMAIN kssMap) = ci
        /\ ksPc = "returned" =>
              /\ ci = n
              /\ DOMAIN kssMap = {AbrevKeyOf(kssList[i]) : i \in 1..n}
              /\ \A i \in 1..n :
                    kssMap[AbrevKeyOf(kssList[i])] = L2KeystoneAbbreviate(kssList[i])

\* A call with more records than a byte has values has returned.
C1_Witness ==
    /\ ksPc = "returned"
    /\ n = 257
    /\ Len(kssList) = 257
    /\ Cardinality(DOMAIN kssMap) = 257

\* C2: after every loop iteration and at return, every record but the first
\* names the EPHash of the record before it as its PrevKeystoneEPHash, and the
\* first record names the EPHash of the genesis record, SHA256 of the byte 0.
C2_ChainLinked ==
    /\ Len(kssList) >= 1 => kssList[1].PrevKeystoneEPHash = SHA256(<<0>>)
    /\ \A i \in 2..Len(kssList) :
          kssList[i].PrevKeystoneEPHash = kssList[i - 1].EPHash

\* The loop is under way with at least three records linked.
C2_Witness ==
    /\ ksPc = "loop"
    /\ ci < n
    /\ Len(kssList) >= 3
    /\ kssList[3].PrevKeystoneEPHash = SHA256(<<2>>)

\* The record MakeSharedKeystones builds for index i - 1, in closed form.
ExpectedKeystone(i) ==
    [Version            |-> 1,
     L1BlockNumber      |-> U32(10000 + i),
     L2BlockNumber      |-> U32(25 * i),
     ParentEPHash       |-> SHA256(<<i % 256, i % 256>>),
     PrevKeystoneEPHash |-> SHA256(<<(i - 1) % 256>>),
     StateRoot          |-> SHA256(<<i % 256, i % 256, i % 256>>),
     EPHash             |-> SHA256(<<i % 256>>)]

\* C6: the record at index i has as EPHash the digest of the one byte i+1
\* narrowed to 8 bits, as ParentEPHash the digest of that byte twice and as
\* StateRoot the digest of that byte three times; the slice and the map
\* returned are a function of N alone.  (Sequences here are 1-based, so the
\* record at index i is kssList[i + 1].)
C6_InputsFromIndex ==
    /\ \A k \in 1..Len(kssList) :
          LET x == k % 256 IN
          /\ kssList[k].EPHash = SHA256(<<x>>)
          /\ kssList[k].ParentEPHash = SHA256(<<x, x>>)
          /\ kssList[k].StateRoot = SHA256(<<x, x, x>>)
    /\ ksPc = "returned" =>
          /\ kssList = [k \in 1..n |-> ExpectedKeystone(k)]
          /\ kssMap = [h \in {AbrevKeyOf(ExpectedKeystone(k)) : k \in 1..n} |->
                          h.pre]

\* A call has returned whose 256th record has the narrowed byte 0 as input,
\* the same input as the genesis record.
C6_Witness ==
    /\ ksPc = "returned"
    /\ n >= 257
    /\ kssList[256].EPHash = SHA256(<<0>>)
    /\ kssList[257].EPHash = SHA256(<<1>>)

\* C7: MakeSharedKeystones completes normally for any integer count.
C7_NeverAborts == ksPc # "panic"

----------------------------------------------------------------------------
(* Properties of FillBytes and FillBytesZero *)

Max0(v) == IF v < 0 THEN 0 ELSE v

\* C3: FillBytes(prefix, n) has length max(n, 0); its bytes below len(prefix)
\* are those of prefix, and every byte from len(prefix) on is '_'.
C3_FillBytes ==
    "FillBytes" \in fbPc =>
        /\ Len(fbResult) = Max0(fbN)
        /\ \A i \in 1..Max0(fbN) :
              /\ i <= Len(fbPrefix) => fbResult[i] = fbPrefix[i]
              /\ i > Len(fbPrefix) => fbResult[i] = 95
        /\ fbN < 0 => fbResult = <<>>

\* FillBytes has padded a prefix shorter than the length asked for.
C3_Witness ==
    /\ "FillBytes" \in fbPc
    /\ fbPrefix = <<97, 0>>
    /\ fbN = 4
    /\ fbResult = <<97, 0, 95, 95>>

\* C4: FillBytesZero(prefix, n) has length max(n, 0); its bytes below
\* len(prefix) are those of prefix and every other byte is 0; it has the length
\* of FillBytes on the same arguments and agrees with it below len(prefix),
\* and from len(prefix) on it holds 0 where FillBytes holds '_'.
C4_FillBytesZero ==
    "FillBytesZero" \in fbPc =>
        /\ Len(fbzResult) = Max0(fbN)
        /\ \A i \in 1..Max0(fbN) :
              /\ i <= Len(fbPrefix) => fbzResult[i] = fbPrefix[i]
              /\ i > Len(fbPrefix) => fbzResult[i] = 0
        /\ "FillBytes" \in fbPc =>
              /\ Len(fbzResult) = Len(fbResult)
              /\ \A i \in 1..Len(fbzResult) :
                    IF i <= Len(fbPrefix)
                       THEN fbzResult[i] = fbResult[i]
                       ELSE fbzResult[i] = 0 /\ fbResult[i] = 95

\* Both variants have padded the same short prefix.
C4_Witness ==
    /\ fbPc = {"FillBytes", "FillBytesZero"}
    /\ fbPrefix = <<95>>
    /\ fbN = 3
    /\ fbzResult = <<95, 0, 0>>
    /\ fbResult = <<95, 95, 95>>

----------------------------------------------------------------------------
(* Properties of RandomBytes and FreePort *)

DigitValue(c) == CHOOSE d \in 0..9 : DigitChars[d + 1] = c

RECURSIVE ParseDecimal(_)
ParseDecimal(s) ==
    IF s = <<>> THEN 0
    ELSE ParseDecimal(SubSeq(s, 1, Len(s) - 1)) * 10 + DigitValue(s[Len(s)])

IsDecimal(s) ==
    /\ Len(s) >= 1
    /\ \A k \in 1..Len(s) : \E d \in 1..10 : DigitChars[d] = s[k]
    /\ Len(s) > 1 => s[1] # "0"

\* C8: RandomBytes and FreePort ask their source once and never again; when
\* the source reports an error they panic and return nothing; when it succeeds
\* RandomBytes(N), N >= 0, returns N bytes and FreePort returns the port in
\* decimal.
C8_FatalOnSourceError ==
    /\ sysCalls <= 1
    /\ sysPc \in {"returned", "panic"} /\ sysArg >= 0 => sysCalls = 1
    /\ (sysErr # NoErr /\ sysPc \notin {"check"}) =>
          sysPc = "panic" /\ sysRet = <<>>
    /\ sysPc = "panic" => sysErr # NoErr \/ sysArg < 0
    /\ (sysPc = "returned" /\ sysFn = "RandomBytes") =>
          sysArg >= 0 /\ Len(sysRet) = sysArg /\ sysRet = sysBuf
    /\ (sysPc = "returned" /\ sysFn = "FreePort") =>
          IsDecimal(sysRet) /\ ParseDecimal(sysRet) = sysPort

\* RandomBytes has panicked on an entropy error after a single read.
C8_Witness ==
    /\ sysFn = "RandomBytes"
    /\ sysPc = "panic"
    /\ sysErr \in SysErrs
    /\ sysArg = 2
    /\ sysCalls = 1

----------------------------------------------------------------------------
(* Properties of ExecuteTX *)

CallsOf(r, name) == {k \in 1..Len(r.calls) : r.calls[k].call = name}

Failed(r) == {k \in 1..Len(r.calls) : r.calls[k].err # NoErr}

Returned(r) == r.pc = "returned"

\* C5: when NewEngine, a Step or CheckErrorCondition reports an error,
\* ExecuteTX returns that very error; it returns nil only if NewEngine
\* succeeded, every Step made succeeded and CheckErrorCondition succeeded.
C5_ErrorsPropagate ==
    \A d \in Dump :
        LET r == run[d] IN
        /\ \A k \in Failed(r) :
              r.calls[k].call \in {"NewEngine", "Step", "CheckErrorCondition"}
                 => Returned(r) /\ r.ret = r.calls[k].err
        /\ (Returned(r) /\ r.ret = NoErr) =>
              /\ Len(r.calls) >= 1
              /\ r.calls[1] = Called("NewEngine", NoErr, FALSE, NoVal)
              /\ \A k \in CallsOf(r, "Step") : r.calls[k].err = NoErr
              /\ r.calls[Len(r.calls)] =
                    Called("CheckErrorCondition", NoErr, FALSE, NoVal)

\* A run has returned the error of its final condition check.
C5_Witness ==
    \E d \in Dump :
        LET r == run[d] IN
        /\ Returned(r)
        /\ r.ret = "e2"
        /\ r.calls[Len(r.calls)] = Called("CheckErrorCondition", "e2", FALSE, NoVal)

\* The call that may follow call k of r.
Follows(r, k) ==
    LET c == r.calls[k]
        x == r.calls[k + 1].call
    IN  /\ c.err = NoErr
        /\ c.call = "NewEngine" => x = "DisasmPC"
        /\ c.call = "DisasmPC" => x = "Step"
        /\ c.call = "Step" => x = "GetStack"
        /\ c.call = "GetStack" =>
              x = (IF r.calls[k - 1].done THEN "CheckErrorCondition" ELSE "DisasmPC")
        /\ c.call # "CheckErrorCondition"

DoneSteps(r) == {k \in CallsOf(r, "Step") : r.calls[k].done /\ r.calls[k].err = NoErr}

C9_CallOrder ==
    \A d \in Dump :
        LET r == run[d] IN
        /\ Len(r.calls) >= 1 => r.calls[1].call = "NewEngine"
        /\ \A k \in 1..(Len(r.calls) - 1) : Follows(r, k)
        /\ Cardinality(CallsOf(r, "CheckErrorCondition")) <= 1
        /\ CallsOf(r, "CheckErrorCondition") # {} => DoneSteps(r) # {}
        /\ Returned(r) =>
              /\ Failed(r) \subseteq {Len(r.calls)}
              /\ Failed(r) = {} => r.calls[Len(r.calls)].call = "CheckErrorCondition"
              /\ Cardinality(CallsOf(r, "CheckErrorCondition")) =
                    Cardinality(DoneSteps(r))

\* C9: the interpreter is called in the order NewEngine, then rounds of
\* DisasmPC, Step, GetStack; the loop ends at the first Step that is done or
\* at the first error; CheckErrorCondition is called once, and only after a
\* Step was done without error; no call follows a call that reported an error;
\* and once the interpreter has reported done or an error, ExecuteTX returns.
C9_TerminatesThenChecks ==
    /\ []C9_CallOrder
    /\ \A d \in Dump :
          (DoneSteps(run[d]) # {} \/ Failed(run[d]) # {}) ~> Returned(run[d])

\* A run went round the loop more than once, was reported done, made its one
\* final check and returned.
C9_Witness ==
    \E d \in Dump :
        LET r == run[d] IN
        /\ Returned(r)
        /\ Cardinality(CallsOf(r, "Step")) >= 2
        /\ Cardinality(DoneSteps(r)) = 1
        /\ Cardinality(CallsOf(r, "CheckErrorCondition")) = 1

LinesOf(r, line) == {k \in 1..Len(r.log) : r.log[k].line = line}

\* C10: with the same interpreter answers the run with dump and the run
\* without make the same interpreter calls, DisasmPC on every round included,
\* and return the same result; the run without dump logs nothing; the run
\* with dump logs, for every completed step, one line with its disassembly and
\* one with its stack, and logs the SUCCESS line only when it returns nil.
C10_DumpOnlyLogs ==
    LET q == run[FALSE]
        v == run[TRUE]
    IN  /\ q.calls = v.calls
        /\ q.pc = v.pc
        /\ q.ret = v.ret
        /\ \A k \in Failed(q) :
              q.calls[k].call = "DisasmPC" => Returned(q) /\ q.ret = q.calls[k].err
        /\ q.log = <<>>
        /\ \A k \in CallsOf(v, "GetStack") :
              \* call k closes round j (0-based): calls k-2, k-1, k
              LET j == (k - 4) \div 3 IN
              /\ Cardinality({l \in LinesOf(v, "disasm") : v.log[l].i = j}) = 1
              /\ Cardinality({l \in LinesOf(v, "stack") : v.log[l].i = j}) = 1
              /\ \E l \in LinesOf(v, "disasm") :
                    v.log[l].i = j /\ v.log[l].arg = v.calls[k - 2].val
              /\ \E l \in LinesOf(v, "stack") :
                    v.log[l].i = j /\ v.log[l].arg = v.calls[k].val
        /\ Cardinality(LinesOf(v, "stack")) = Cardinality(CallsOf(v, "GetStack"))
        /\ Returned(v) =>
              Cardinality(LinesOf(v, "stack")) =
                 Cardinality({k \in CallsOf(v, "Step") : v.calls[k].err = NoErr})
        /\ LinesOf(v, "success") # {} <=> (Returned(v) /\ v.ret = NoErr)
        /\ Cardinality(LinesOf(v, "success")) <= 1

\* Both runs stopped on the same disassembly error in the second round, the
\* quiet one having logged nothing and the verbose one the first round.
C10_Witness ==
    /\ Returned(run[FALSE])
    /\ Returned(run[TRUE])
    /\ run[FALSE].ret = "e1"
    /\ run[TRUE].ret = "e1"
    /\ Len(run[FALSE].calls) = 5
    /\ run[FALSE].calls[5].call = "DisasmPC"
    /\ run[FALSE].log = <<>>
    /\ Len(run[TRUE].log) = 3
====
